---- MODULE Spec2Model ----
(***************************************************************************)
(* Model of src/src/main.rs: a SQLite table `todos` behind one connection  *)
(* held in a std::sync::Mutex, and the four Tauri commands get_todos,      *)
(* add_todo, update_todo and delete_todo that lock the connection, run one *)
(* db_* function on it and drop the guard when they return.                *)
(*                                                                         *)
(* Spec is the repository: each db_* function runs as one action on the   *)
(* connection, as the tests call them.  SpecCmd is the commands: callers   *)
(* lock the mutex, run the statements of a db_* function one step each and *)
(* drop the guard.  An Option<T> is the empty sequence (None) or a         *)
(* one-element sequence (Some(x)), so that Some("") and None are different *)
(* values.                                                                 *)
(***************************************************************************)
EXTENDS Integers, Sequences, FiniteSets, TLC

\* ---------------------------------------------------------------- bounds

\* Number of add_todo calls in a run (AUTOINCREMENT ids reach MaxCreates).
MaxCreates == 2

\* Number of add_todo calls in a run that is checked for termination.
MaxLiveCreates == 1

\* The largest id a statement can bind: rusqlite binds a u64 parameter with
\* i64::try_from, and SQLite rowids are i64.  Scaled from 2^63 - 1 to one
\* above the largest id the model hands out.
I64Max == MaxCreates + 1

\* u64 values wrap at 2^64; scaled with I64Max (2^64 = 2 * (i64::MAX + 1)).
U64Mod == 2 * (I64Max + 1)

\* ---------------------------------------------------------------- values

None == << >>
Some(x) == << x >>

\* String arguments: the empty string and one non-empty string per field.
Titles == {"", "a"}
Deadlines == {"", "d"}

\* The strings Local::now().to_rfc3339() produces, named in the order in which
\* they first come up: only their equality matters.
Times == << "t1", "t2" >>

\* What the clock can read after the readings `used`: the local clock is not
\* monotonic, so any earlier reading again, or the next new one.
Now(used) ==
    {Times[k] : k \in {k \in DOMAIN Times :
                         k = 1 \/ Times[k] \in used \/ Times[k - 1] \in used}}

OptTitle == {None} \cup {Some(t) : t \in Titles}
OptBool == {None, Some(TRUE), Some(FALSE)}
OptDeadline == {None} \cup {Some(d) : d \in Deadlines}

\* The id arguments: every id the store can hand out, and the first u64
\* that does not fit an i64.
IdArgs == (1 .. MaxCreates) \cup {I64Max + 1}

\* struct Todo
Todo(id, title, completed, created_at, deadline) ==
    [id |-> id, title |-> title, completed |-> completed,
     created_at |-> created_at, deadline |-> deadline]

VARIABLES
    todos,      \* the rows of table todos
    seq,        \* sqlite_sequence.seq of table todos (AUTOINCREMENT)
    log,        \* what db_add_todo has returned, in order (id, created_at)
    gone,       \* the ids db_delete_todo has removed a row for
    last,       \* the db_* call whose outcome the caller has not yet taken:
                \* arguments, rows before it, outcome
    guards,     \* the callers holding a MutexGuard of AppState.db
    poisoned,   \* the poison flag of AppState.db
    pc,         \* per caller: where it is in its command
    req,        \* per caller: the command it runs and its arguments
    pre,        \* per caller: the rows when its db_* function started
    success,    \* per caller: the bool its db_* function has computed
    out,        \* per caller: the Todos its db_* function returns
    arrival,    \* the callers inside a command, in the order they called
                \* `state.db.lock()`
    at          \* per caller: the place its panic was raised at

dbvars == << todos, seq, log, gone >>
cmdvars == << guards, poisoned, pc, req, pre, success, out, arrival, at >>
vars == << todos, seq, log, gone, last, guards, poisoned, pc, req, pre,
           success, out, arrival, at >>

\* ---------------------------------------------------------------- SQL

Max(a, b) == IF a >= b THEN a ELSE b

Ids(rows) == {r.id : r \in rows}

RECURSIVE MaxRowid(_)
\* The largest rowid in the table, 0 for an empty table.
MaxRowid(rows) ==
    IF rows = {} THEN 0
    ELSE LET r == CHOOSE x \in rows : TRUE
         IN Max(r.id, MaxRowid(rows \ {r}))

\* INTEGER PRIMARY KEY without AUTOINCREMENT: one more than the largest rowid
\* now in the table.
NextRowidNoAutoincrement(rows, s) == MaxRowid(rows) + 1

\* A key that fills gaps: the smallest positive id no row of the table has.
NextRowidFirstFree(rows, s) ==
    CHOOSE n \in 1 .. (Cardinality(rows) + 1) :
        /\ n \notin Ids(rows)
        /\ \A m \in 1 .. (n - 1) : m \in Ids(rows)

\* INTEGER PRIMARY KEY AUTOINCREMENT: one more than the largest rowid the
\* table has ever held, which sqlite_sequence remembers across deletes.
NextRowid(rows, s) == Max(MaxRowid(rows), s) + 1

\* DROP TABLE IF EXISTS todos; CREATE TABLE todos (...): a new, empty table
\* and no sqlite_sequence entry for it.
DropAndCreateTable(rows, s) == [rows |-> {}, seq |-> 0]

\* CREATE TABLE IF NOT EXISTS todos (...) on a database that has the table:
\* the statement does nothing, the rows and sqlite_sequence stay.
CreateTableIfNotExists(rows, s) == [rows |-> rows, seq |-> s]

\* `conn.last_insert_rowid() as u64`
AsU64(n) == n % U64Mod

\* Whether rusqlite can bind the u64 `id` (ToSql for u64 is i64::try_from).
Binds(id) == id <= I64Max

RECURSIVE SelectOpen(_)
\* SELECT ... FROM todos WHERE completed = 0
SelectOpen(rows) ==
    LET open == {r \in rows : ~r.completed}
    IN IF open = {} THEN << >>
       ELSE LET r == CHOOSE x \in open : \A y \in open : x.id <= y.id
            IN << r >> \o SelectOpen(open \ {r})

RECURSIVE SelectAll(_)
\* SELECT ... FROM todos: a scan of the rowid b-tree, each row once.
SelectAll(rows) ==
    IF rows = {} THEN << >>
    ELSE LET r == CHOOSE x \in rows : \A y \in rows : x.id <= y.id
         IN << r >> \o SelectAll(rows \ {r})

\* UPDATE todos SET created_at = ?1 WHERE id = ?2
SetCreatedAt(rows, id, t) ==
    {IF r.id = id THEN [r EXCEPT !.created_at = t] ELSE r : r \in rows}

\* UPDATE todos SET title = ?1 WHERE id = ?2
SetTitle(rows, id, t) ==
    {IF r.id = id THEN [r EXCEPT !.title = t] ELSE r : r \in rows}

\* UPDATE todos SET completed = ?1
SetCompletedEverywhere(rows, id, c) ==
    {[r EXCEPT !.completed = c] : r \in rows}

\* UPDATE todos SET completed = ?1 WHERE id = ?2
SetCompleted(rows, id, c) ==
    {IF r.id = id THEN [r EXCEPT !.completed = c] ELSE r : r \in rows}

\* UPDATE todos SET deadline = ?1 WHERE id = ?2
SetDeadline(rows, id, d) ==
    {IF r.id = id THEN [r EXCEPT !.deadline = d] ELSE r : r \in rows}

\* `Some(d)`, whatever d is
KeepDeadline(d) == Some(d)

\* `if d.is_empty() { None } else { Some(d) }`
NormDeadline(d) == IF d = "" THEN None ELSE Some(d)

\* DELETE FROM todos WHERE id <= ?1
DeleteRowsUpTo(rows, id) == {r \in rows : r.id > id}

\* DELETE FROM todos WHERE id = ?1
DeleteRows(rows, id) == {r \in rows : r.id # id}

\* The number of rows in the table before the DELETE.
CountRows(rows, id) == Cardinality(rows)

\* The affected-row count `execute` returns for the DELETE.
DeleteCount(rows, id) == Cardinality({r \in rows : r.id = id})

\* The INSERT with the deadline normalised as db_update_todo does.
InsertRowNormalised(rows, id, title, completed, created_at, deadline) ==
    rows \cup {Todo(id, title, completed, created_at,
                    IF deadline = Some("") THEN None ELSE deadline)}

\* INSERT INTO todos (title, completed, created_at, deadline) VALUES (...)
\* with the rowid the table assigns.
InsertRow(rows, id, title, completed, created_at, deadline) ==
    rows \cup {Todo(id, title, completed, created_at, deadline)}

\* The three `if let Some(..)` blocks of db_update_todo, each on the rows and
\* the `success` flag the blocks before it left.
UpdTitle(st, id, t) ==
    IF t = None THEN st
    ELSE [rows |-> SetTitle(st.rows, id, t[1]), success |-> TRUE]

UpdCompleted(st, id, c) ==
    IF c = None THEN st
    ELSE [rows |-> SetCompleted(st.rows, id, c[1]), success |-> TRUE]

UpdDeadline(st, id, d) ==
    IF d = None THEN st
    ELSE [rows |-> SetDeadline(st.rows, id, NormDeadline(d[1])),
          success |-> TRUE]

\* db_update_todo from `let mut success = false` to `success`: the three
\* blocks in their order.
UpdateAll(rows, id, t, c, d) ==
    UpdDeadline(
      UpdCompleted(
        UpdTitle([rows |-> rows, success |-> FALSE], id, t),
        id, c),
      id, d)

\* db_update_todo reaches a statement that binds `id` and cannot.
UpdatePanics(id, t, c, d) ==
    /\ ~Binds(id)
    /\ (t # None \/ c # None \/ d # None)

\* ---------------------------------------------------------------- Init

\* A call record: the function, its arguments, the rows before it, whether
\* it returned ("ok") or panicked, and what it returned.
Call(cmd, id, title, completed, deadline, before, result, flag, value) ==
    [cmd |-> cmd, id |-> id, title |-> title, completed |-> completed,
     deadline |-> deadline, pre |-> before, result |-> result,
     success |-> flag, out |-> value]

NoCall == Call("none", 0, None, None, None, {}, "ok", FALSE, << >>)

\* The callers of the commands.
Callers == {"c1", "c2"}

\* A command and its arguments.
Req(cmd, id, title, completed, deadline) ==
    [cmd |-> cmd, id |-> id, title |-> title, completed |-> completed,
     deadline |-> deadline]

NoReq == Req("none", 0, None, None, None)

\* init_db on a new database: the table exists and is empty.
Init ==
    /\ todos = {}
    /\ seq = 0
    /\ log = << >>
    /\ gone = {}
    /\ last = NoCall
    /\ guards = {}
    /\ poisoned = FALSE
    /\ pc = [c \in Callers |-> "idle"]
    /\ req = [c \in Callers |-> NoReq]
    /\ pre = [c \in Callers |-> {}]
    /\ success = [c \in Callers |-> FALSE]
    /\ out = [c \in Callers |-> << >>]
    /\ arrival = << >>
    /\ at = [c \in Callers |-> "none"]

\* ---------------------------------------------------------------- db_*

\* No call is in progress: the caller can make the next one.
Ready == last.cmd = "none"

\* init_db on the database of an earlier run of the program (main opens
\* "todos.db" and calls init_db at every start).
init_db ==
    /\ Ready
    /\ UNCHANGED cmdvars
    /\ LET db == CreateTableIfNotExists(todos, seq)
       IN /\ todos' = db.rows
          /\ seq' = db.seq
    /\ last' = Call("init", 0, None, None, None, todos, "ok", FALSE, << >>)
    /\ UNCHANGED << log, gone >>

db_get_todos ==
    /\ Ready
    /\ UNCHANGED cmdvars
    /\ last' = Call("get", 0, None, None, None, todos, "ok", FALSE,
                    SelectAll(todos))
    /\ UNCHANGED << todos, seq, log, gone >>

\* Reads the clock, inserts, and builds the Todo it returns from its
\* arguments and last_insert_rowid().
db_add_todo(title, deadline) ==
    /\ Ready
    /\ UNCHANGED cmdvars
    /\ Len(log) < MaxCreates
    /\ \E created_at \in Now({log[i].created_at : i \in DOMAIN log}) :
         LET id == NextRowid(todos, seq)
         IN IF id > I64Max
            THEN \* SQLITE_FULL: `expect("Failed to insert todo")`
                 /\ last' = Call("add", 0, Some(title), None, deadline, todos,
                                 "panic", FALSE, << >>)
                 /\ UNCHANGED << todos, seq, log, gone >>
            ELSE /\ todos' = InsertRow(todos, id, title, FALSE, created_at,
                                       deadline)
                 /\ seq' = Max(seq, id)
                 /\ log' = Append(log, [id |-> AsU64(id),
                                        created_at |-> created_at])
                 /\ last' = Call("add", 0, Some(title), None, deadline, todos,
                                 "ok", FALSE,
                                 << Todo(AsU64(id), title, FALSE, created_at,
                                         deadline) >>)
                 /\ UNCHANGED gone

db_update_todo(id, title, completed, deadline) ==
    /\ Ready
    /\ UNCHANGED cmdvars
    /\ IF UpdatePanics(id, title, completed, deadline)
       THEN /\ last' = Call("update", id, title, completed, deadline, todos,
                            "panic", FALSE, << >>)
            /\ UNCHANGED << todos, seq, log, gone >>
       ELSE LET st == UpdateAll(todos, id, title, completed, deadline)
            IN /\ todos' = st.rows
               /\ last' = Call("update", id, title, completed, deadline,
                               todos, "ok", st.success, << >>)
               /\ UNCHANGED << seq, log, gone >>

db_delete_todo(id) ==
    /\ Ready
    /\ UNCHANGED cmdvars
    /\ IF ~Binds(id)
       THEN /\ last' = Call("delete", id, None, None, None, todos, "panic",
                            FALSE, << >>)
            /\ UNCHANGED << todos, seq, log, gone >>
       ELSE /\ todos' = DeleteRows(todos, id)
            /\ gone' = IF DeleteCount(todos, id) > 0
                       THEN gone \cup {id} ELSE gone
            /\ last' = Call("delete", id, None, None, None, todos, "ok",
                            DeleteCount(todos, id) > 0, << >>)
            /\ UNCHANGED << seq, log >>

\* The caller takes the outcome of the call.
Return ==
    /\ ~Ready
    /\ UNCHANGED cmdvars
    /\ last' = NoCall
    /\ UNCHANGED << todos, seq, log, gone >>

Next ==
    \/ init_db
    \/ db_get_todos
    \/ \E t \in Titles, d \in OptDeadline : db_add_todo(t, d)
    \/ \E id \in IdArgs, t \in OptTitle, c \in OptBool, d \in OptDeadline :
         db_update_todo(id, t, c, d)
    \/ \E id \in IdArgs : db_delete_todo(id)
    \/ Return

Spec == Init /\ [][Next]_vars

\* ---------------------------------------------------------------- commands

\* The arguments the commands are invoked with: one value that changes each
\* field, so that an UPDATE that has run shows in the row.
CmdTitle == {None, Some("")}
CmdCompleted == {None, Some(TRUE)}
CmdDeadline == {None, Some("d")}

\* The clock readings of the commands: what matters to them is the order of
\* the steps, so every add_todo reads the same time.
CmdNow == {Times[1]}

\* The places of a caller inside a db_* function.
InDb == {"select", "insert", "title", "completed", "deadline", "delete", "ret"}

\* The callers of q without c, in the same order.
Leave(q, c) == SelectSeq(q, LAMBDA x : x # c)

\* The dispatch layer invokes one of the four commands for caller c, which
\* calls `state.db.lock()`.
Invoke(c) ==
    /\ pc[c] = "idle"
    /\ pc' = [pc EXCEPT ![c] = "lock"]
    /\ arrival' = Append(arrival, c)
    /\ UNCHANGED << dbvars, last, guards, poisoned, req, pre, success, out,
                    at >>

\* A mutex that never makes a caller wait.
NeverHeld == TRUE

\* `lock()` returns when no other guard of the mutex is alive.
LockFree == guards = {}

\* `state.db.lock().unwrap()` of a poisoned mutex: the lock is taken, the
\* PoisonError unwrapped, and the guard inside it dropped by the panic.
LockPoisoned(c) ==
    /\ pc[c] = "lock"
    /\ LockFree
    /\ poisoned
    /\ pc' = [pc EXCEPT ![c] = "panic"]
    /\ at' = [at EXCEPT ![c] = "lock"]
    /\ UNCHANGED << dbvars, last, guards, poisoned, req, pre, success, out,
                    arrival >>

\* `let conn = state.db.lock().unwrap();` and the call of db_*: caller c
\* holds the guard and is at the first statement of command r.
Enter(c, r, first) ==
    /\ pc[c] = "lock"
    /\ LockFree
    /\ ~poisoned
    /\ guards' = guards \cup {c}
    /\ req' = [req EXCEPT ![c] = r]
    /\ pre' = [pre EXCEPT ![c] = todos]
    /\ success' = [success EXCEPT ![c] = FALSE]
    /\ pc' = [pc EXCEPT ![c] = first]
    /\ UNCHANGED << dbvars, last, poisoned, out, arrival, at >>

\* The error is caught and the transaction of the call rolled back before the
\* panic.
PanicRollsBack(c) ==
    /\ pc' = [pc EXCEPT ![c] = "panic"]
    /\ guards' = guards \ {c}
    /\ poisoned' = TRUE
    /\ at' = [at EXCEPT ![c] = pc[c]]
    /\ todos' = pre[c]
    /\ UNCHANGED << seq, log, gone, last, req, pre, success, out, arrival >>

\* An `unwrap`/`expect` in caller c panics: unwinding drops its guard, which
\* poisons the mutex.
Panic(c) ==
    /\ pc' = [pc EXCEPT ![c] = "panic"]
    /\ guards' = guards \ {c}
    /\ poisoned' = TRUE
    /\ at' = [at EXCEPT ![c] = pc[c]]
    /\ UNCHANGED << dbvars, last, req, pre, success, out, arrival >>

get_todos(c) ==
    /\ Enter(c, Req("get", 0, None, None, None), "select")

add_todo(c) ==
    /\ Len(log) < MaxCreates
    /\ Enter(c, Req("add", 0, Some("a"), None, None), "insert")

update_todo(c) ==
    /\ \E id \in IdArgs, t \in CmdTitle, cm \in CmdCompleted,
          d \in CmdDeadline :
         Enter(c, Req("update", id, t, cm, d), "title")

delete_todo(c) ==
    /\ \E id \in IdArgs : Enter(c, Req("delete", id, None, None, None),
                                "delete")

\* db_get_todos in caller c.
RunSelect(c) ==
    /\ pc[c] = "select"
    /\ out' = [out EXCEPT ![c] = SelectAll(todos)]
    /\ pc' = [pc EXCEPT ![c] = "ret"]
    /\ UNCHANGED << dbvars, last, guards, poisoned, req, pre, success,
                    arrival, at >>

\* db_add_todo in caller c.
RunInsert(c) ==
    /\ pc[c] = "insert"
    /\ \E created_at \in CmdNow :
         LET id == NextRowid(todos, seq)
         IN IF id > I64Max
            THEN Panic(c)
            ELSE /\ todos' = InsertRow(todos, id, req[c].title[1], FALSE,
                                       created_at, req[c].deadline)
                 /\ seq' = Max(seq, id)
                 /\ log' = Append(log, [id |-> AsU64(id),
                                        created_at |-> created_at])
                 /\ out' = [out EXCEPT ![c] =
                              << Todo(AsU64(id), req[c].title[1], FALSE,
                                      created_at, req[c].deadline) >>]
                 /\ pc' = [pc EXCEPT ![c] = "ret"]
                 /\ UNCHANGED << gone, last, guards, poisoned, req, pre,
                                 success, arrival, at >>

\* One `if let Some(..)` block of db_update_todo in caller c: `supplied` is
\* its argument, `st` the rows and flag it leaves, `then` the place after it.
RunUpdate(c, supplied, st, then) ==
    IF supplied # None /\ ~Binds(req[c].id)
    THEN Panic(c)
    ELSE /\ todos' = st.rows
         /\ success' = [success EXCEPT ![c] = st.success]
         /\ pc' = [pc EXCEPT ![c] = then]
         /\ UNCHANGED << seq, log, gone, last, guards, poisoned, req, pre,
                         out, arrival, at >>

RunUpdateTitle(c) ==
    /\ pc[c] = "title"
    /\ RunUpdate(c, req[c].title,
                 UpdTitle([rows |-> todos, success |-> success[c]],
                          req[c].id, req[c].title),
                 "completed")

RunUpdateCompleted(c) ==
    /\ pc[c] = "completed"
    /\ RunUpdate(c, req[c].completed,
                 UpdCompleted([rows |-> todos, success |-> success[c]],
                              req[c].id, req[c].completed),
                 "deadline")

RunUpdateDeadline(c) ==
    /\ pc[c] = "deadline"
    /\ RunUpdate(c, req[c].deadline,
                 UpdDeadline([rows |-> todos, success |-> success[c]],
                             req[c].id, req[c].deadline),
                 "ret")

\* db_delete_todo in caller c.
RunDelete(c) ==
    /\ pc[c] = "delete"
    /\ IF ~Binds(req[c].id)
       THEN Panic(c)
       ELSE /\ todos' = DeleteRows(todos, req[c].id)
            /\ gone' = IF DeleteCount(todos, req[c].id) > 0
                       THEN gone \cup {req[c].id} ELSE gone
            /\ success' = [success EXCEPT ![c] =
                             DeleteCount(todos, req[c].id) > 0]
            /\ pc' = [pc EXCEPT ![c] = "ret"]
            /\ UNCHANGED << seq, log, last, guards, poisoned, req, pre, out,
                            arrival, at >>

\* The command returns its value and its guard is never dropped.
UnlockLeaksGuard(c) ==
    /\ pc[c] = "ret"
    /\ pc' = [pc EXCEPT ![c] = "idle"]
    /\ req' = [req EXCEPT ![c] = NoReq]
    /\ pre' = [pre EXCEPT ![c] = {}]
    /\ success' = [success EXCEPT ![c] = FALSE]
    /\ out' = [out EXCEPT ![c] = << >>]
    /\ arrival' = Leave(arrival, c)
    /\ UNCHANGED << dbvars, last, guards, poisoned, at >>

\* The command returns its value: `conn` goes out of scope, which unlocks.
Unlock(c) ==
    /\ pc[c] = "ret"
    /\ guards' = guards \ {c}
    /\ pc' = [pc EXCEPT ![c] = "idle"]
    /\ req' = [req EXCEPT ![c] = NoReq]
    /\ pre' = [pre EXCEPT ![c] = {}]
    /\ success' = [success EXCEPT ![c] = FALSE]
    /\ out' = [out EXCEPT ![c] = << >>]
    /\ arrival' = Leave(arrival, c)
    /\ UNCHANGED << dbvars, last, poisoned, at >>

\* The panic has left the command, which returns nothing.
Unwound(c) ==
    /\ pc[c] = "panic"
    /\ pc' = [pc EXCEPT ![c] = "idle"]
    /\ req' = [req EXCEPT ![c] = NoReq]
    /\ pre' = [pre EXCEPT ![c] = {}]
    /\ success' = [success EXCEPT ![c] = FALSE]
    /\ out' = [out EXCEPT ![c] = << >>]
    /\ arrival' = Leave(arrival, c)
    /\ at' = [at EXCEPT ![c] = "none"]
    /\ UNCHANGED << dbvars, last, guards, poisoned >>

NextCmd ==
    \E c \in Callers :
        \/ Invoke(c)
        \/ LockPoisoned(c)
        \/ get_todos(c)
        \/ add_todo(c)
        \/ update_todo(c)
        \/ delete_todo(c)
        \/ RunSelect(c)
        \/ RunInsert(c)
        \/ RunUpdateTitle(c)
        \/ RunUpdateCompleted(c)
        \/ RunUpdateDeadline(c)
        \/ RunDelete(c)
        \/ Unlock(c)
        \/ Unwound(c)

SpecCmd == Init /\ [][NextCmd]_vars

\* ---------------------------------------------------------------- failures

\* Caller c is at a statement that runs: the SELECT, the INSERT, the DELETE,
\* or the UPDATE of a field its Update supplies.
Executes(c) ==
    \/ pc[c] \in {"select", "insert", "delete"}
    \/ pc[c] = "title" /\ req[c].title # None
    \/ pc[c] = "completed" /\ req[c].completed # None
    \/ pc[c] = "deadline" /\ req[c].deadline # None

\* The Err of the statement is turned into the default value of the call,
\* which returns it (`unwrap_or_default()`).
StatementFailsQuietly(c) ==
    /\ Executes(c)
    /\ at' = [at EXCEPT ![c] = pc[c]]
    /\ pc' = [pc EXCEPT ![c] = "ret"]
    /\ UNCHANGED << dbvars, last, guards, poisoned, req, pre, success, out,
                    arrival >>

\* The statement caller c is at returns Err (I/O error, full disk, locked
\* or corrupt file): SQLite leaves the table as it was before the statement,
\* and the `unwrap`/`expect` on the Err panics.
StatementFails(c) ==
    /\ Executes(c)
    /\ Panic(c)

NextFail ==
    \/ NextCmd
    \/ \E c \in Callers : StatementFails(c)

SpecFail == Init /\ [][NextFail]_vars

\* A step of caller c inside its command, up to its return or unwinding.
Step(c) ==
    \/ RunSelect(c)
    \/ RunInsert(c)
    \/ RunUpdateTitle(c)
    \/ RunUpdateCompleted(c)
    \/ RunUpdateDeadline(c)
    \/ RunDelete(c)
    \/ Unlock(c)
    \/ Unwound(c)

\* `state.db.lock()` returns in caller c.
Acquire(c) ==
    \/ LockPoisoned(c)
    \/ get_todos(c)
    \/ add_todo(c)
    \/ update_todo(c)
    \/ delete_todo(c)

\* The ids in the runs checked for termination: whether a command ends does
\* not depend on which Task it names, so one id db_add_todo returns and the
\* id that cannot be bound stand for all (0 is the id of NoReq).
LiveIds == {0, 1, I64Max + 1}

\* The steps of NextFail in a run that enters add_todo at most
\* MaxLiveCreates times and uses the ids of LiveIds.
NextLive ==
    /\ NextFail
    /\ \A c \in Callers :
         /\ req'[c].id \in LiveIds
         /\ (req[c].cmd # "add" /\ req'[c].cmd = "add") =>
                Len(log) < MaxLiveCreates

\* Fair scheduling of the callers: a caller inside a command keeps running,
\* and a caller in `lock()` gets the mutex if it stays free.  The mutex
\* promises nothing to a caller that finds it taken each time it is woken.
SpecLive ==
    /\ Init
    /\ [][NextLive]_vars
    /\ \A c \in Callers : WF_vars(Step(c)) /\ WF_vars(Acquire(c))

\* ---------------------------------------------------------------- claims

\* What db_get_todos returns in the current state, and its entries.
Listed == SelectAll(todos)

\* The row of `rows` with the given id.
RowOf(rows, id) == CHOOSE r \in rows : r.id = id

Returned == last.result = "ok"
Supplied == last.title # None \/ last.completed # None \/ last.deadline # None
LoggedIds == {log[i].id : i \in DOMAIN log}

\* C1: no two Tasks in the store share an id, and the ids db_add_todo has
\* returned are pairwise distinct.
C1_IdentityUnique ==
    /\ \A r1, r2 \in todos : r1.id = r2.id => r1 = r2
    /\ \A i, j \in DOMAIN log : i # j => log[i].id # log[j].id

\* Two Creates with a successful Delete behind them.
C1_Witness == Len(log) >= 2 /\ gone # {}

\* C2: after Create(T, D), from any store, List contains exactly one entry
\* with the returned id, that entry is the Todo Create returned, and the Todo
\* has title T, completed = false and deadline exactly D.
C2_RoundTrip ==
    last.cmd = "add" =>
        /\ Returned
        /\ Len(last.out) = 1
        /\ LET t == last.out[1]
               L == Listed
           IN /\ t.title = last.title[1]
              /\ t.completed = FALSE
              /\ t.deadline = last.deadline
              /\ Cardinality({i \in DOMAIN L : L[i].id = t.id}) = 1
              /\ \A i \in DOMAIN L : L[i].id = t.id => L[i] = t

\* Create("", Some("")) on a store that already holds a Task.
C2_Witness ==
    /\ last.cmd = "add" /\ Returned
    /\ last.title = Some("") /\ last.deadline = Some("")
    /\ last.pre # {}

\* C3: after Update(id, deadline = Some(S)) of an existing Task, List shows
\* that Task with deadline absent when S is empty and with deadline S when it
\* is not, whatever the deadline was.
C3_DeadlineNormalised ==
    (last.cmd = "update" /\ last.deadline # None
       /\ last.id \in Ids(last.pre)) =>
        /\ Returned
        /\ LET L == Listed
           IN /\ \E i \in DOMAIN L : L[i].id = last.id
              /\ \A i \in DOMAIN L :
                   L[i].id = last.id =>
                       L[i].deadline = IF last.deadline[1] = ""
                                       THEN None ELSE last.deadline

\* Update(id, deadline = "") of a Task that Create gave the deadline "".
C3_Witness ==
    /\ last.cmd = "update" /\ Returned
    /\ last.deadline = Some("")
    /\ last.id \in Ids(last.pre)
    /\ RowOf(last.pre, last.id).deadline = Some("")

\* C4: Update of an existing Task sets each supplied field of that Task to
\* the supplied value (an empty deadline meaning absent), leaves its other
\* fields as they were, leaves every other Task as it was and adds or removes
\* no Task.
C4_PartialUpdate ==
    (last.cmd = "update" /\ last.id \in Ids(last.pre)) =>
        /\ Returned
        /\ Cardinality(todos) = Cardinality(last.pre)
        /\ {r \in todos : r.id # last.id} = {r \in last.pre : r.id # last.id}
        /\ LET old == RowOf(last.pre, last.id)
               new == RowOf(todos, last.id)
           IN /\ new.id = last.id
              /\ new.title = IF last.title = None THEN old.title
                             ELSE last.title[1]
              /\ new.completed = IF last.completed = None THEN old.completed
                                 ELSE last.completed[1]
              /\ new.deadline = IF last.deadline = None THEN old.deadline
                                ELSE IF last.deadline = Some("") THEN None
                                ELSE last.deadline

\* Update(id, completed = true) alone, on a Task with a title and a deadline,
\* with another, uncompleted Task in the store.
C4_Witness ==
    /\ last.cmd = "update" /\ Returned
    /\ last.title = None /\ last.completed = Some(TRUE) /\ last.deadline = None
    /\ last.id \in Ids(last.pre)
    /\ RowOf(last.pre, last.id).title = "a"
    /\ RowOf(last.pre, last.id).deadline = Some("d")
    /\ \E r \in last.pre : r.id # last.id /\ ~r.completed

\* C5: Delete(id) returns true exactly when a Task with that id was in the
\* store; after it no Task has that id; and an id Delete has removed is in
\* no later List, so a further Delete of it returns false.
C5_DeleteFinal ==
    LET L == Listed
    IN /\ \A i \in DOMAIN L : L[i].id \notin gone
       /\ last.cmd = "delete" =>
            /\ (Returned /\ last.success) <=> last.id \in Ids(last.pre)
            /\ \A i \in DOMAIN L : L[i].id # last.id
            /\ (last.id \in Ids(last.pre)) => last.id \in gone
            /\ (last.id \in gone /\ last.id \notin Ids(last.pre)) =>
                  (Returned /\ ~last.success)

\* A second Delete of an id, returning false, after both Creates were made.
C5_Witness ==
    /\ last.cmd = "delete" /\ Returned /\ ~last.success
    /\ last.id \in gone
    /\ Len(log) >= 2

\* C6 (as claimed): Update of an id that names no Task does not fail, leaves
\* the store as it was, and returns true when a field was supplied.
C6_UpdateMissing ==
    (last.cmd = "update" /\ last.id \notin Ids(last.pre)) =>
        /\ Returned
        /\ todos = last.pre
        /\ Supplied => last.success

\* C7 (as claimed): Update returns true exactly when a field was supplied,
\* whatever the id; with no field supplied it returns false and leaves the
\* store as it was.
C7_UpdateReturn ==
    last.cmd = "update" =>
        /\ (Returned /\ last.success) <=> Supplied
        /\ ~Supplied => (Returned /\ ~last.success /\ todos = last.pre)

\* C8: every Task in the store has an id that Create returned, and List shows
\* it with the created_at that Create returned with that id.
C8_CreatedAtImmutable ==
    LET L == Listed
    IN /\ \A i \in DOMAIN L : \E j \in DOMAIN log : L[i].id = log[j].id
       /\ \A i \in DOMAIN L, j \in DOMAIN log :
            L[i].id = log[j].id => L[i].created_at = log[j].created_at
       /\ (last.cmd = "update" /\ Returned) => Ids(todos) = Ids(last.pre)

\* An Update that supplied all three fields to an existing Task.
C8_Witness ==
    /\ last.cmd = "update" /\ Returned
    /\ last.title # None /\ last.completed # None /\ last.deadline # None
    /\ last.id \in Ids(last.pre)
    /\ RowOf(todos, last.id) # RowOf(last.pre, last.id)

\* C9: List returns the Tasks in the store, each once and nothing else (the
\* Tasks created and not deleted), and leaves the store as it was, so that
\* a List made right after it returns the same.
C9_ListComplete ==
    last.cmd = "get" =>
        /\ Returned
        /\ todos = last.pre
        /\ {last.out[i] : i \in DOMAIN last.out} = todos
        /\ Len(last.out) = Cardinality(todos)
        /\ {last.out[i].id : i \in DOMAIN last.out} = LoggedIds \ gone
        /\ Listed = last.out

\* A List of a store with a completed Task, after a Delete.
C9_Witness ==
    /\ last.cmd = "get" /\ Returned
    /\ \E i \in DOMAIN last.out : last.out[i].completed
    /\ gone # {}

\* C10: at most one caller holds a guard; a caller inside a db_* function
\* holds it and no other caller is inside one; so a command that returns has
\* done to the rows it found exactly what its db_* function does as a whole,
\* and no SELECT runs while another caller is between the UPDATEs of one
\* db_update_todo.
C10_Serialised ==
    /\ Cardinality(guards) <= 1
    /\ \A c \in Callers : pc[c] \in InDb => c \in guards
    /\ \A c, u \in Callers : (c # u /\ pc[c] \in InDb) => pc[u] \notin InDb
    /\ \A c, u \in Callers :
         (c # u /\ pc[c] = "select") =>
             pc[u] \notin {"title", "completed", "deadline"}
    /\ \A c \in Callers :
         pc[c] = "ret" =>
             CASE req[c].cmd = "get" ->
                    /\ todos = pre[c]
                    /\ out[c] = SelectAll(pre[c])
               [] req[c].cmd = "add" ->
                    /\ Len(out[c]) = 1
                    /\ todos = pre[c] \cup {out[c][1]}
                    /\ out[c][1] \notin pre[c]
               [] req[c].cmd = "update" ->
                    LET st == UpdateAll(pre[c], req[c].id, req[c].title,
                                        req[c].completed, req[c].deadline)
                    IN todos = st.rows /\ success[c] = st.success
               [] req[c].cmd = "delete" ->
                    /\ todos = DeleteRows(pre[c], req[c].id)
                    /\ success[c] = (req[c].id \in Ids(pre[c]))
               [] OTHER -> FALSE

\* A caller has run the first UPDATEs of a three-field Update and not yet the
\* last, while the other caller waits in lock().
C10_Witness ==
    \E c, u \in Callers :
        /\ c # u
        /\ pc[c] = "deadline"
        /\ req[c].title # None /\ req[c].completed # None
        /\ req[c].deadline # None
        /\ todos # pre[c]
        /\ pc[u] = "lock"

\* C12: init_db on a database that already has the table changes nothing:
\* the store holds the Tasks it held, and an id db_add_todo returns differs
\* from every id it returned before, with init_db calls anywhere in between.
C12_InitIdempotent ==
    /\ last.cmd = "init" => (Returned /\ todos = last.pre)
    /\ \A i \in DOMAIN log : log[i].id <= seq
    /\ \A i \in 1 .. (Len(log) - 1) : log[i].id # log[Len(log)].id

\* init_db on a store that holds a Task and has had one deleted.
C12_Witness ==
    /\ last.cmd = "init" /\ Returned
    /\ last.pre # {} /\ gone # {}
    /\ todos = last.pre

\* C13: the ids db_add_todo returns are strictly increasing in the order of
\* the calls, the first on a new store is 1, and an id is never returned
\* again, whichever Tasks have been deleted in between.
C13_IdsIncrease ==
    /\ Len(log) >= 1 => log[1].id = 1
    /\ \A i, j \in DOMAIN log : i < j => log[i].id < log[j].id
    /\ \A r \in todos : r.id \in LoggedIds
    /\ gone \subseteq LoggedIds

\* Create on a store that a Delete of the largest id has emptied.
C13_Witness ==
    /\ last.cmd = "add" /\ Returned
    /\ last.pre = {} /\ gone # {}
    /\ last.out[1].id = 2

\* C18: db_delete_todo(id) removes at most the one Task with that id: every
\* other Task is in the store afterwards with all its fields, nothing is
\* added, and for an id no Task has the store is as it was.
C18_DeleteFrame ==
    last.cmd = "delete" =>
        /\ todos \subseteq last.pre
        /\ \A r \in last.pre : r.id # last.id => r \in todos
        /\ Cardinality(last.pre \ todos) <= 1
        /\ last.id \notin Ids(last.pre) => todos = last.pre

\* Delete of the larger of two ids in the store.
C18_Witness ==
    /\ last.cmd = "delete" /\ Returned /\ last.success
    /\ \E r \in last.pre : r.id < last.id
    /\ todos # {}

\* The callers in the sequence q.
Members(q) == {q[i] : i \in DOMAIN q}

\* C11: the caller that holds the store handle is the one that has waited
\* longest among the callers inside a command: a caller that called lock()
\* earlier is never overtaken by one that called it later.
C11_ArrivalOrder == \A c \in guards : Head(arrival) = c

\* C11, amended: the handle is granted to callers that are waiting for it,
\* to one at a time, and a waiting caller stays waiting until it is granted
\* the handle; the order of the grants among waiting callers is not fixed.
C11_GrantedToWaiting ==
    /\ guards \subseteq Members(arrival)
    /\ Cardinality(guards) <= 1
    /\ \A c \in Callers : pc[c] # "idle" <=> c \in Members(arrival)
    /\ \A i, j \in DOMAIN arrival : arrival[i] = arrival[j] => i = j
    /\ \A c \in Callers : pc[c] = "lock" => c \notin guards

\* The caller that called lock() second holds the guard while the one that
\* called it first is still waiting.
C11_Witness ==
    /\ Len(arrival) = 2
    /\ arrival[2] \in guards
    /\ pc[arrival[1]] = "lock"

\* C14: a command fails only at a statement of its own: no command fails
\* at the acquisition of the store handle because a statement of an earlier
\* command failed, and a failed command holds no guard.
C14_FailureConfined ==
    \A c \in Callers :
        pc[c] = "panic" => (c \notin guards /\ at[c] # "lock")

\* The rows db_update_todo has left when its UPDATE at `place` fails: those
\* of the fields before it, from the rows the call started with.
AppliedBefore(rows, r, place) ==
    LET st0 == [rows |-> rows, success |-> FALSE]
        st1 == UpdTitle(st0, r.id, r.title)
        st2 == UpdCompleted(st1, r.id, r.completed)
    IN CASE place = "title" -> st0.rows
         [] place = "completed" -> st1.rows
         [] place = "deadline" -> st2.rows

\* C15: when the UPDATE of one field of an Update fails, the call panics
\* and returns no boolean, the store holds the changes of the supplied
\* fields before it in the order title, completed, deadline, and none of
\* the fields from it on.
C15_UpdateBestEffort ==
    \A c \in Callers :
        at[c] \in {"title", "completed", "deadline"} =>
            /\ pc[c] = "panic"
            /\ c \notin guards
            /\ todos = AppliedBefore(pre[c], req[c], at[c])

\* The UPDATE of the deadline has failed after the UPDATEs of title and
\* completed changed the Task.
C15_Witness ==
    \E c \in Callers :
        /\ at[c] = "deadline" /\ pc[c] = "panic"
        /\ req[c].title # None /\ req[c].completed # None
        /\ Binds(req[c].id)
        /\ todos # pre[c]
        /\ \E r \in todos : r.id = req[c].id /\ r.title = "" /\ r.completed

\* C16: when the SELECT of List, the INSERT of Create or the DELETE of
\* Delete fails, the call panics: it returns no list, no Todo and no
\* boolean, and the store holds the Tasks it held when the call started.
C16_FailureNotDisguised ==
    \A c \in Callers :
        at[c] \in {"select", "insert", "delete"} =>
            /\ pc[c] = "panic"
            /\ out[c] = << >>
            /\ success[c] = FALSE
            /\ todos = pre[c]

\* The INSERT, the SELECT or the DELETE has failed on a store with a Task.
C16_Witness ==
    \E c \in Callers :
        /\ at[c] \in {"select", "insert", "delete"}
        /\ Binds(req[c].id)
        /\ pre[c] # {}

\* The places of a caller that has just been given the store handle.
Granted(c) ==
    \/ pc[c] \in {"select", "insert", "title", "delete"}
    \/ pc[c] = "panic" /\ at[c] = "lock"

\* C17: under fair scheduling every caller that has invoked a command gets
\* the store handle, and its command returns or panics; and a caller never
\* waits for the handle while no caller holds it and it cannot take it.
C17_Terminates ==
    /\ [](\A c \in Callers :
            (pc[c] = "lock" /\ guards = {}) => ENABLED Acquire(c))
    /\ \A c \in Callers :
         /\ (pc[c] = "lock") ~> (pc[c] \in InDb \cup {"panic"})
         /\ (pc[c] # "idle") ~> (pc[c] = "idle")

\* C17, amended: a command that has been given the store handle returns or
\* panics; while callers wait for the handle, one of the waiting callers is
\* given it; and a caller never waits for the handle while no caller holds
\* it and it cannot take it.
C17_HolderTerminates ==
    /\ [](\A c \in Callers :
            (pc[c] = "lock" /\ guards = {}) => ENABLED Acquire(c))
    /\ \A c \in Callers :
         (pc[c] \in InDb \cup {"panic"}) ~> (pc[c] = "idle")
    /\ (\E c \in Callers : pc[c] = "lock")
         ~> (\E c \in Callers : Granted(c))

\* A caller waits in lock() while the other is about to return and unlock.
C17_Witness ==
    \E c, u \in Callers :
        /\ pc[c] = "lock"
        /\ pc[u] = "ret" /\ u \in guards

====
